---- MODULE Spec2Model ----
(***************************************************************************)
(* The two template generators of scripts/: generate-from-catalog.py (the  *)
(* curated pipeline) and generate-templates.py (the remote pipeline).      *)
(* A Python str is a sequence of one-character strings, a dict is a        *)
(* function whose DOMAIN is its key set, a list is a sequence.             *)
(***************************************************************************)
EXTENDS Integers, Sequences, FiniteSets, TLC

VARIABLES pipeline, args, source, apps, pc, idx, generated, skipped,
          categories, dirs, files, log, exitCode, uncaught

vars == <<pipeline, args, source, apps, pc, idx, generated, skipped,
          categories, dirs, files, log, exitCode, uncaught>>

(***************************************************************************)
(* Bound of the model: the longest catalog.                                *)
(***************************************************************************)
MaxEntries == 2

(***************************************************************************)
(* Strings.  s_<text> is the Python str with that text: the sequence of    *)
(* its characters.                                                         *)
(***************************************************************************)
s_empty == <<>>
s_space == <<" ">>
s_amp == <<" ", "&", " ">>
s_spaced_dash == <<" ", "-", " ">>
s_containerized_application == <<" ", "c", "o", "n", "t", "a", "i", "n", "e",
    "r", "i", "z", "e", "d", " ", "a", "p", "p", "l", "i", "c", "a", "t",
    "i", "o", "n">>
s_hash == <<"#", " ">>
s_hash_base_image == <<"#", " ", "B", "a", "s", "e", " ", "I", "m", "a", "g",
    "e", ":", " ">>
s_hash_category == <<"#", " ", "C", "a", "t", "e", "g", "o", "r", "y", ":",
    " ">>
s_dash == <<"-">>
s_separator == <<"-", "-", "-", "\n">>
s_logo_png == <<"-", "l", "o", "g", "o", ".", "p", "n", "g">>
s_yaml == <<".", "y", "a", "m", "l">>
s_slash == <<"/">>
s_config_path == <<"/", "c", "o", "n", "f", "i", "g">>
s_1000 == <<"1", "0", "0", "0">>
s_1000m == <<"1", "0", "0", "0", "m">>
s_1500m == <<"1", "5", "0", "0", "m">>
s_2 == <<"2">>
s_2000m == <<"2", "0", "0", "0", "m">>
s_2Gi == <<"2", "G", "i">>
s_3D_Modeling == <<"3", "D", " ", "M", "o", "d", "e", "l", "i", "n", "g">>
s_3D_Printing == <<"3", "D", " ", "P", "r", "i", "n", "t", "i", "n", "g">>
s_3Gi == <<"3", "G", "i">>
s_4Gi == <<"4", "G", "i">>
s_latest == <<":", "l", "a", "t", "e", "s", "t">>
s_AI_and_ML == <<"A", "I", " ", "&", " ", "M", "L">>
s_Administration_and_Security == <<"A", "d", "m", "i", "n", "i", "s", "t",
    "r", "a", "t", "i", "o", "n", " ", "&", " ", "S", "e", "c", "u", "r",
    "i", "t", "y">>
s_Administration_and_Storage == <<"A", "d", "m", "i", "n", "i", "s", "t",
    "r", "a", "t", "i", "o", "n", " ", "&", " ", "S", "t", "o", "r", "a",
    "g", "e">>
s_America_New_York == <<"A", "m", "e", "r", "i", "c", "a", "/", "N", "e",
    "w", "_", "Y", "o", "r", "k">>
s_Audacity == <<"A", "u", "d", "a", "c", "i", "t", "y">>
s_Audio == <<"A", "u", "d", "i", "o">>
s_Audio_and_Video == <<"A", "u", "d", "i", "o", " ", "&", " ", "V", "i", "d",
    "e", "o">>
s_Audio_Processing == <<"A", "u", "d", "i", "o", " ", "P", "r", "o", "c",
    "e", "s", "s", "i", "n", "g">>
s_Audio_editor_ == <<"A", "u", "d", "i", "o", " ", "e", "d", "i", "t", "o",
    "r", " ">>
s_Automation == <<"A", "u", "t", "o", "m", "a", "t", "i", "o", "n">>
s_Books == <<"B", "o", "o", "k", "s">>
s_Chat_and_Social == <<"C", "h", "a", "t", " ", "&", " ", "S", "o", "c", "i",
    "a", "l">>
s_Chromium == <<"C", "h", "r", "o", "m", "i", "u", "m">>
s_Clipboard == <<"C", "l", "i", "p", "b", "o", "a", "r", "d">>
s_Communication == <<"C", "o", "m", "m", "u", "n", "i", "c", "a", "t", "i",
    "o", "n">>
s_Content_Management == <<"C", "o", "n", "t", "e", "n", "t", " ", "M", "a",
    "n", "a", "g", "e", "m", "e", "n", "t">>
s_Databases == <<"D", "a", "t", "a", "b", "a", "s", "e", "s">>
s_Design_and_Graphics == <<"D", "e", "s", "i", "g", "n", " ", "&", " ", "G",
    "r", "a", "p", "h", "i", "c", "s">>
s_Desktop_Environments == <<"D", "e", "s", "k", "t", "o", "p", " ", "E", "n",
    "v", "i", "r", "o", "n", "m", "e", "n", "t", "s">>
s_Development == <<"D", "e", "v", "e", "l", "o", "p", "m", "e", "n", "t">>
s_Documents == <<"D", "o", "c", "u", "m", "e", "n", "t", "s">>
s_Downloaders == <<"D", "o", "w", "n", "l", "o", "a", "d", "e", "r", "s">>
s_FTP == <<"F", "T", "P">>
s_FTP_client == <<"F", "T", "P", " ", "c", "l", "i", "e", "n", "t">>
s_Family == <<"F", "a", "m", "i", "l", "y">>
s_File_Management == <<"F", "i", "l", "e", " ", "M", "a", "n", "a", "g", "e",
    "m", "e", "n", "t">>
s_FileZilla == <<"F", "i", "l", "e", "Z", "i", "l", "l", "a">>
s_Finance == <<"F", "i", "n", "a", "n", "c", "e">>
s_Firefox == <<"F", "i", "r", "e", "f", "o", "x">>
s_webtop_description == <<"F", "u", "l", "l", " ", "L", "i", "n", "u", "x",
    " ", "d", "e", "s", "k", "t", "o", "p", " ", "e", "n", "v", "i", "r",
    "o", "n", "m", "e", "n", "t", " ", "a", "c", "c", "e", "s", "s", "i",
    "b", "l", "e", " ", "v", "i", "a", " ", "w", "e", "b", " ", "b", "r",
    "o", "w", "s", "e", "r", ".", " ", "A", "v", "a", "i", "l", "a", "b",
    "l", "e", " ", "i", "n", " ", "m", "u", "l", "t", "i", "p", "l", "e",
    " ", "d", "i", "s", "t", "r", "i", "b", "u", "t", "i", "o", "n", "s",
    " ", "a", "n", "d", " ", "d", "e", "s", "k", "t", "o", "p", " ", "e",
    "n", "v", "i", "r", "o", "n", "m", "e", "n", "t", "s", ".">>
s_GIMP == <<"G", "I", "M", "P">>
s_Games == <<"G", "a", "m", "e", "s">>
s_Gaming == <<"G", "a", "m", "i", "n", "g">>
s_Home_Automation == <<"H", "o", "m", "e", " ", "A", "u", "t", "o", "m", "a",
    "t", "i", "o", "n">>
s_IDE == <<"I", "D", "E">>
s_IRC == <<"I", "R", "C">>
s_Image_Editor == <<"I", "m", "a", "g", "e", " ", "E", "d", "i", "t", "o",
    "r">>
s_Image_editor == <<"I", "m", "a", "g", "e", " ", "e", "d", "i", "t", "o",
    "r">>
s_kasm_description == <<"K", "a", "s", "m", " ", "W", "o", "r", "k", "s",
    "p", "a", "c", "e", "s", " ", "p", "l", "a", "t", "f", "o", "r", "m",
    " ", "f", "o", "r", " ", "s", "t", "r", "e", "a", "m", "i", "n", "g",
    " ", "c", "o", "n", "t", "a", "i", "n", "e", "r", "i", "z", "e", "d",
    " ", "a", "p", "p", "s", " ", "a", "n", "d", " ", "d", "e", "s", "k",
    "t", "o", "p", "s", " ", "t", "o", " ", "t", "h", "e", " ", "b", "r",
    "o", "w", "s", "e", "r", ".">>
s_Lifestyle == <<"L", "i", "f", "e", "s", "t", "y", "l", "e">>
s_Machine_Learning == <<"M", "a", "c", "h", "i", "n", "e", " ", "L", "e",
    "a", "r", "n", "i", "n", "g">>
s_Media == <<"M", "e", "d", "i", "a">>
s_Media_Management == <<"M", "e", "d", "i", "a", " ", "M", "a", "n", "a",
    "g", "e", "m", "e", "n", "t">>
s_Media_Requesters == <<"M", "e", "d", "i", "a", " ", "R", "e", "q", "u",
    "e", "s", "t", "e", "r", "s">>
s_Media_Servers_and_Music == <<"M", "e", "d", "i", "a", " ", "S", "e", "r",
    "v", "e", "r", "s", " ", "&", " ", "M", "u", "s", "i", "c">>
s_Media_Tools == <<"M", "e", "d", "i", "a", " ", "T", "o", "o", "l", "s">>
s_Monitoring == <<"M", "o", "n", "i", "t", "o", "r", "i", "n", "g">>
s_Music == <<"M", "u", "s", "i", "c">>
s_Network == <<"N", "e", "t", "w", "o", "r", "k">>
s_Network_and_DNS == <<"N", "e", "t", "w", "o", "r", "k", " ", "&", " ", "D",
    "N", "S">>
s_Networking == <<"N", "e", "t", "w", "o", "r", "k", "i", "n", "g">>
s_PGID == <<"P", "G", "I", "D">>
s_PUID == <<"P", "U", "I", "D">>
s_Password_Manager == <<"P", "a", "s", "s", "w", "o", "r", "d", " ", "M",
    "a", "n", "a", "g", "e", "r">>
s_Photos == <<"P", "h", "o", "t", "o", "s">>
s_Productivity == <<"P", "r", "o", "d", "u", "c", "t", "i", "v", "i", "t",
    "y">>
s_Programming == <<"P", "r", "o", "g", "r", "a", "m", "m", "i", "n", "g">>
s_RSS_and_Social == <<"R", "S", "S", " ", "&", " ", "S", "o", "c", "i", "a",
    "l">>
s_Recipes == <<"R", "e", "c", "i", "p", "e", "s">>
s_Remote_Access == <<"R", "e", "m", "o", "t", "e", " ", "A", "c", "c", "e",
    "s", "s">>
s_Remote_Desktop_and_Business == <<"R", "e", "m", "o", "t", "e", " ", "D",
    "e", "s", "k", "t", "o", "p", " ", "&", " ", "B", "u", "s", "i", "n",
    "e", "s", "s">>
s_Remote_Desktop_and_Security == <<"R", "e", "m", "o", "t", "e", " ", "D",
    "e", "s", "k", "t", "o", "p", " ", "&", " ", "S", "e", "c", "u", "r",
    "i", "t", "y">>
s_Science == <<"S", "c", "i", "e", "n", "c", "e">>
s_Science_and_Education == <<"S", "c", "i", "e", "n", "c", "e", " ", "&",
    " ", "E", "d", "u", "c", "a", "t", "i", "o", "n">>
s_Security == <<"S", "e", "c", "u", "r", "i", "t", "y">>
s_Storage_and_Monitoring == <<"S", "t", "o", "r", "a", "g", "e", " ", "&",
    " ", "M", "o", "n", "i", "t", "o", "r", "i", "n", "g">>
s_System_Utilities == <<"S", "y", "s", "t", "e", "m", " ", "U", "t", "i",
    "l", "i", "t", "i", "e", "s">>
s_TCP == <<"T", "C", "P">>
s_TZ == <<"T", "Z">>
s_Template == <<"T", "e", "m", "p", "l", "a", "t", "e">>
s_UTC == <<"U", "T", "C">>
s_Uncategorized == <<"U", "n", "c", "a", "t", "e", "g", "o", "r", "i", "z",
    "e", "d">>
s_Unknown == <<"U", "n", "k", "n", "o", "w", "n">>
s_VS_Code == <<"V", "S", " ", "C", "o", "d", "e">>
s_Video_Editor == <<"V", "i", "d", "e", "o", " ", "E", "d", "i", "t", "o",
    "r">>
s_Web_Browser == <<"W", "e", "b", " ", "B", "r", "o", "w", "s", "e", "r">>
s_Web_Browsers == <<"W", "e", "b", " ", "B", "r", "o", "w", "s", "e", "r",
    "s">>
s_Web_Tools_and_Automation == <<"W", "e", "b", " ", "T", "o", "o", "l", "s",
    " ", "&", " ", "A", "u", "t", "o", "m", "a", "t", "i", "o", "n">>
s_Web_browser == <<"W", "e", "b", " ", "b", "r", "o", "w", "s", "e", "r">>
s_newline == <<"\n">>
s_audacity == <<"a", "u", "d", "a", "c", "i", "t", "y">>
s_chromium == <<"c", "h", "r", "o", "m", "i", "u", "m">>
s_code_server == <<"c", "o", "d", "e", "-", "s", "e", "r", "v", "e", "r">>
s_dashboard == <<"d", "a", "s", "h", "b", "o", "a", "r", "d">>
s_default == <<"d", "e", "f", "a", "u", "l", "t">>
s_desktop == <<"d", "e", "s", "k", "t", "o", "p">>
s_filezilla == <<"f", "i", "l", "e", "z", "i", "l", "l", "a">>
s_firefox == <<"f", "i", "r", "e", "f", "o", "x">>
s_gimp == <<"g", "i", "m", "p">>
s_gui == <<"g", "u", "i">>
s_http == <<"h", "t", "t", "p">>
s_icon_base == <<"h", "t", "t", "p", "s", ":", "/", "/", "r", "a", "w", ".",
    "g", "i", "t", "h", "u", "b", "u", "s", "e", "r", "c", "o", "n", "t",
    "e", "n", "t", ".", "c", "o", "m", "/", "l", "i", "n", "u", "x", "s",
    "e", "r", "v", "e", "r", "/", "d", "o", "c", "k", "e", "r", "-", "t",
    "e", "m", "p", "l", "a", "t", "e", "s", "/", "m", "a", "s", "t", "e",
    "r", "/", "l", "i", "n", "u", "x", "s", "e", "r", "v", "e", "r", ".",
    "i", "o", "/", "i", "m", "g", "/">>
s_kasm == <<"k", "a", "s", "m">>
s_linuxserver_dash == <<"l", "i", "n", "u", "x", "s", "e", "r", "v", "e",
    "r", "-">>
s_linuxserver_slash == <<"l", "i", "n", "u", "x", "s", "e", "r", "v", "e",
    "r", "/">>
s_linuxserver_heimdall == <<"l", "i", "n", "u", "x", "s", "e", "r", "v", "e",
    "r", "/", "h", "e", "i", "m", "d", "a", "l", "l">>
s_linuxserver_kasm == <<"l", "i", "n", "u", "x", "s", "e", "r", "v", "e",
    "r", "/", "k", "a", "s", "m">>
s_linuxserver_webtop == <<"l", "i", "n", "u", "x", "s", "e", "r", "v", "e",
    "r", "/", "w", "e", "b", "t", "o", "p">>
s_registry == <<"l", "s", "c", "r", ".", "i", "o", "/", "l", "i", "n", "u",
    "x", "s", "e", "r", "v", "e", "r", "/">>
s_m == <<"m">>
s_templates_generated == <<"m", "a", "n", "i", "f", "e", "s", "t", "s", "/",
    "t", "e", "m", "p", "l", "a", "t", "e", "s", "-", "g", "e", "n", "e",
    "r", "a", "t", "e", "d">>
s_api_version == <<"s", "t", "r", "e", "a", "m", ".", "s", "t", "r", "e",
    "a", "m", "s", "p", "a", "c", "e", ".", "i", "o", "/", "v", "1", "a",
    "l", "p", "h", "a", "1">>
s_streamspace == <<"s", "t", "r", "e", "a", "m", "s", "p", "a", "c", "e">>
s_template == <<"t", "e", "m", "p", "l", "a", "t", "e">>
s_unknown == <<"u", "n", "k", "n", "o", "w", "n">>
s_user_home == <<"u", "s", "e", "r", "-", "h", "o", "m", "e">>
s_vnc == <<"v", "n", "c">>
s_webtop == <<"w", "e", "b", "t", "o", "p">>

\* Python's None (JSON null), where a str is expected.
None == <<"None">>

\* A code point UTF-8 cannot encode (a lone surrogate, JSON "\ud800").
Surrogate == "U+D800"

\* The characters of the model in code point order (ASCII).
CodePoints ==
  <<"\n", " ", "#", "&", "-", ".", "/", "0", "1", "2", "3", "4", "5", "6",
    "7", "8", "9", ":", "A", "B", "C", "D", "E", "F", "G", "H", "I", "J",
    "K", "L", "M", "N", "O", "P", "Q", "R", "S", "T", "U", "V", "W", "X",
    "Y", "Z", "_", "a", "b", "c", "d", "e", "f", "g", "h", "i", "j", "k",
    "l", "m", "n", "o", "p", "q", "r", "s", "t", "u", "v", "w", "x", "y",
    "z", Surrogate>>

UpperChars == SubSeq(CodePoints, 19, 44)
LowerChars == SubSeq(CodePoints, 46, 71)
DigitChars == SubSeq(CodePoints, 8, 17)

Ord(c) == CHOOSE k \in 1..Len(CodePoints) : CodePoints[k] = c

IsUpper(c) == \E k \in 1..26 : UpperChars[k] = c
IsLower(c) == \E k \in 1..26 : LowerChars[k] = c
IsAlpha(c) == IsUpper(c) \/ IsLower(c)
IsDigit(c) == \E k \in 1..10 : DigitChars[k] = c

ToLower(c) == IF IsUpper(c) THEN LowerChars[CHOOSE k \in 1..26 : UpperChars[k] = c] ELSE c
ToUpper(c) == IF IsLower(c) THEN UpperChars[CHOOSE k \in 1..26 : LowerChars[k] = c] ELSE c

\* A slip: title() where lower() is meant.
Lower_Title(s) ==
  [k \in 1..Len(s) |->
     IF k = 1 \/ ~IsAlpha(s[k - 1]) THEN ToUpper(s[k]) ELSE ToLower(s[k])]

\* str.lower()
Lower(s) == [k \in 1..Len(s) |-> ToLower(s[k])]

\* str.title(): a cased character is upper case after an uncased one (or at
\* the start) and lower case after a cased one.
Title(s) ==
  [k \in 1..Len(s) |->
     IF k = 1 \/ ~IsAlpha(s[k - 1]) THEN ToUpper(s[k]) ELSE ToLower(s[k])]

\* s[i:].replace(old, new) for a non-empty old, positions counted from 1.
RECURSIVE ReplaceFrom(_, _, _, _)
ReplaceFrom(s, old, new, i) ==
  IF i > Len(s) THEN <<>>
  ELSE IF i + Len(old) - 1 <= Len(s) /\ SubSeq(s, i, i + Len(old) - 1) = old
       THEN new \o ReplaceFrom(s, old, new, i + Len(old))
       ELSE <<s[i]>> \o ReplaceFrom(s, old, new, i + 1)

\* str.replace(old, new): every non-overlapping occurrence, left to right.
Replace(s, old, new) == ReplaceFrom(s, old, new, 1)

\* sub in s
Contains(s, sub) ==
  \E k \in 1..(Len(s) - Len(sub) + 1) : SubSeq(s, k, k + Len(sub) - 1) = sub

\* s[:n]
Truncate(s, n) == SubSeq(s, 1, IF Len(s) < n THEN Len(s) ELSE n)

\* s < t in Python's order of str: the code points at the first position
\* where they differ, or the shorter one if there is none.
StrLess(s, t) ==
  \/ Len(s) < Len(t) /\ SubSeq(t, 1, Len(s)) = s
  \/ \E i \in 1..Len(s) :
       /\ i <= Len(t)
       /\ SubSeq(s, 1, i - 1) = SubSeq(t, 1, i - 1)
       /\ Ord(s[i]) < Ord(t[i])

\* sorted(S) for a set S of str.
RECURSIVE Sorted(_)
Sorted(S) ==
  IF S = {} THEN <<>>
  ELSE LET m == CHOOSE x \in S : \A y \in S \ {x} : StrLess(x, y)
       IN  <<m>> \o Sorted(S \ {m})

\* int(s[:n]) for a str of decimal digits (0 for n = 0).
RECURSIVE DigitsPrefix(_, _)
DigitsPrefix(s, n) ==
  IF n = 0 THEN 0
  ELSE 10 * DigitsPrefix(s, n - 1) + (Ord(s[n]) - Ord("0"))

\* int(s) for a str of decimal digits.
DigitsValue(s) == DigitsPrefix(s, Len(s))

IsInt(s) == s # <<>> /\ \A k \in 1..Len(s) : IsDigit(s[k])

\* str(n) for n >= 0.
RECURSIVE IntStr(_)
IntStr(n) ==
  IF n < 10 THEN <<DigitChars[n + 1]>>
  ELSE IntStr(n \div 10) \o <<DigitChars[(n % 10) + 1]>>

(***************************************************************************)
(* Python values.                                                          *)
(***************************************************************************)
\* {} : the dict without keys.
EmptyDict == <<>>

\* d.get(k, default)
DictGet(d, k, default) == IF k \in DOMAIN d THEN d[k] ELSE default

\* The outcome of a call: a returned value or a raised exception.
Return(v) == [ok |-> TRUE, value |-> v]
Raise(e) == [ok |-> FALSE, exc |-> e]

(***************************************************************************)
(* generate-templates.py: the tables of the remote pipeline.               *)
(***************************************************************************)
CATEGORY_MAP ==
  s_Network_and_DNS :> s_Networking @@
  s_Media_Servers_and_Music :> s_Media @@
  s_Chat_and_Social :> s_Communication @@
  s_Monitoring :> s_Monitoring @@
  s_Audio_Processing :> s_Audio_and_Video @@
  s_Family :> s_Lifestyle @@
  s_3D_Printing :> s_Design_and_Graphics @@
  s_Media_Management :> s_Media @@
  s_Music :> s_Media @@
  s_Finance :> s_Productivity @@
  s_3D_Modeling :> s_Design_and_Graphics @@
  s_Science :> s_Science_and_Education @@
  s_Content_Management :> s_Productivity @@
  s_Web_Browser :> s_Web_Browsers @@
  s_Books :> s_Productivity @@
  s_Documents :> s_Productivity @@
  s_Web_Tools_and_Automation :> s_Automation @@
  s_Programming :> s_Development @@
  s_FTP :> s_File_Management @@
  s_Downloaders :> s_File_Management @@
  s_Storage_and_Monitoring :> s_System_Utilities @@
  s_Games :> s_Gaming @@
  s_Media_Requesters :> s_Media @@
  s_Administration_and_Storage :> s_System_Utilities @@
  s_Machine_Learning :> s_AI_and_ML @@
  s_RSS_and_Social :> s_Communication @@
  s_Remote_Desktop_and_Security :> s_Remote_Access @@
  s_Remote_Desktop_and_Business :> s_Remote_Access @@
  s_Home_Automation :> s_Automation @@
  s_Media_Tools :> s_Audio_and_Video @@
  s_Image_Editor :> s_Design_and_Graphics @@
  s_Photos :> s_Design_and_Graphics @@
  s_Password_Manager :> s_Security @@
  s_Video_Editor :> s_Audio_and_Video @@
  s_Recipes :> s_Lifestyle @@
  s_Administration_and_Security :> s_Security @@
  s_IRC :> s_Communication @@
  s_Databases :> s_Development

RESOURCE_DEFAULTS ==
  s_Web_Browsers :> [memory |-> s_2Gi, cpu |-> s_1000m] @@
  s_Development :> [memory |-> s_4Gi, cpu |-> s_2000m] @@
  s_Design_and_Graphics :> [memory |-> s_4Gi, cpu |-> s_2000m] @@
  s_Audio_and_Video :> [memory |-> s_3Gi, cpu |-> s_1500m] @@
  s_Gaming :> [memory |-> s_4Gi, cpu |-> s_2000m] @@
  s_Productivity :> [memory |-> s_3Gi, cpu |-> s_1500m] @@
  s_Media :> [memory |-> s_2Gi, cpu |-> s_1000m] @@
  s_default :> [memory |-> s_2Gi, cpu |-> s_1000m]

SPECIAL_CONFIGS ==
  s_webtop :>
    [description |-> s_webtop_description,
     category |-> s_Desktop_Environments,
     resources |-> [memory |-> s_4Gi, cpu |-> s_2000m]] @@
  s_kasm :>
    [description |-> s_kasm_description,
     skip |-> TRUE]

\* The categories for which the remote pipeline enables KasmVNC.
KasmvncCategories ==
  {s_Web_Browsers, s_Design_and_Graphics, s_Gaming,
   s_Productivity, s_Desktop_Environments}

\* x or y
Or(x, y) == IF x = None \/ x = <<>> THEN y ELSE x

normalize_category(raw_category) ==
  DictGet(CATEGORY_MAP, raw_category, Or(raw_category, s_Uncategorized))

get_resources(category, image_name) ==
  IF image_name \in DOMAIN SPECIAL_CONFIGS
  THEN DictGet(SPECIAL_CONFIGS[image_name], "resources", RESOURCE_DEFAULTS[s_default])
  ELSE DictGet(RESOURCE_DEFAULTS, category, RESOURCE_DEFAULTS[s_default])

should_skip(image_name) ==
  DictGet(DictGet(SPECIAL_CONFIGS, image_name, EmptyDict), "skip", FALSE)

\* category.lower().replace(" & ", "-").replace(" ", "-")
CategorySlug(category) ==
  Replace(Replace(Lower(category), s_amp, s_dash), s_space, s_dash)

\* The three environment variables every template starts with.
FixedEnv ==
  <<[name |-> s_PUID, value |-> s_1000],
    [name |-> s_PGID, value |-> s_1000],
    [name |-> s_TZ, value |-> s_America_New_York]>>

\* An int-or-None field: None is the empty set, the int n is {n}.
NoPort == {}
Port(n) == {n}

\* generate_template of generate-templates.py
RemoteTemplate(image) ==
  LET name == Replace(Lower(DictGet(image, "name", s_empty)), s_slash, s_dash)
      display_name ==
        Title(Replace(DictGet(image, "name", s_Unknown), s_linuxserver_slash, s_empty))
      raw_category == DictGet(image, "category", s_empty)
      category == normalize_category(raw_category)
      stripped == Replace(name, s_linuxserver_dash, s_empty)
      special == DictGet(SPECIAL_CONFIGS, stripped, EmptyDict)
      description ==
        Or(DictGet(special, "description", None),
           DictGet(image, "description",
                   display_name \o s_containerized_application))
      resources == get_resources(category, name)
      kasmvnc_enabled ==
        \/ Contains(Lower(description), s_desktop)
        \/ Contains(Lower(description), s_gui)
        \/ category \in KasmvncCategories
  IN  IF description = None
      THEN Raise(<<"AttributeError", "lower">>)
      ELSE Return(
        [apiVersion |-> s_api_version,
         kind |-> s_Template,
         metadata |-> [name |-> stripped, namespace |-> s_streamspace],
         spec |->
           [displayName |-> display_name,
            description |-> Truncate(description, 500),
            category |-> category,
            icon |-> s_icon_base
                       \o stripped \o s_logo_png,
            baseImage |-> s_registry \o stripped \o s_latest,
            defaultResources |-> resources,
            ports |-> <<[name |-> IF kasmvnc_enabled THEN s_vnc ELSE s_http,
                         containerPort |-> IF kasmvnc_enabled THEN 3000 ELSE 8080,
                         protocol |-> s_TCP]>>,
            env |-> FixedEnv,
            volumeMounts |-> <<[name |-> s_user_home, mountPath |-> s_config_path]>>,
            kasmvnc |-> [enabled |-> kasmvnc_enabled,
                         port |-> Port(IF kasmvnc_enabled THEN 3000 ELSE 8080)],
            capabilities |-> <<s_Network, s_Clipboard>>,
            tags |-> <<stripped, Lower(category)>>]])

(***************************************************************************)
(* generate-from-catalog.py: the curated pipeline.                         *)
(***************************************************************************)
\* The first of the keys that d lacks, in the order the code reads them.
FirstMissing(d, keys) ==
  LET k == CHOOSE j \in 1..Len(keys) :
             /\ keys[j] \notin DOMAIN d
             /\ \A h \in 1..(j - 1) : keys[h] \in DOMAIN d
  IN  keys[k]

\* The "cpu" of the limits: doubled when the request has a milli suffix.
CpuLimit(cpu) ==
  IF Contains(cpu, s_m)
  THEN IntStr(DigitsValue(Replace(cpu, s_m, s_empty)) * 2) \o s_m
  ELSE cpu

\* generate_template of generate-from-catalog.py
CuratedTemplate(app) ==
  LET required == <<"name", "displayName", "description", "category", "resources">>
  IN
  IF \E j \in 1..Len(required) : required[j] \notin DOMAIN app
  THEN Raise(<<"KeyError", FirstMissing(app, required)>>)
  ELSE
  LET name == app["name"]
      display_name == app["displayName"]
      description == app["description"]
      category == app["category"]
      resources == app["resources"]
      kasmvnc_enabled == DictGet(app, "kasmvnc", TRUE)
      port == DictGet(app, "port", IF kasmvnc_enabled THEN 3000 ELSE 8080)
      env_vars == FixedEnv \o DictGet(app, "env", <<>>)
  IN
  IF \E k \in {"memory", "cpu"} : k \notin DOMAIN resources
  THEN Raise(<<"KeyError", FirstMissing(resources, <<"memory", "cpu">>)>>)
  ELSE IF Contains(resources["cpu"], s_m)
          /\ ~IsInt(Replace(resources["cpu"], s_m, s_empty))
  THEN Raise(<<"ValueError", "cpu">>)
  ELSE Return(
    [apiVersion |-> s_api_version,
     kind |-> s_Template,
     metadata |->
       [name |-> name,
        namespace |-> s_streamspace,
        labels |-> [name |-> name,
                    component |-> s_template,
                    category |-> CategorySlug(category)]],
     spec |->
       [displayName |-> display_name,
        description |-> description,
        category |-> category,
        icon |-> s_icon_base
                   \o name \o s_logo_png,
        baseImage |-> s_registry \o name \o s_latest,
        defaultResources |->
          [requests |-> resources,
           limits |-> [memory |-> resources["memory"],
                       cpu |-> CpuLimit(resources["cpu"])]],
        ports |-> <<[name |-> IF kasmvnc_enabled THEN s_vnc ELSE s_http,
                     containerPort |-> port,
                     protocol |-> s_TCP]>>,
        env |-> env_vars,
        volumeMounts |-> <<[name |-> s_user_home, mountPath |-> s_config_path]>>,
        kasmvnc |-> [enabled |-> kasmvnc_enabled,
                     port |-> IF kasmvnc_enabled THEN Port(port) ELSE NoPort],
        capabilities |->
          <<s_Network, s_Clipboard>>
            \o (IF category \in {s_Audio_and_Video, s_Gaming}
                THEN <<s_Audio>> ELSE <<>>),
        tags |-> <<name, Replace(Lower(category), s_space, s_dash)>>]])

(***************************************************************************)
(* The file system and the output streams.                                 *)
(* A file is the sequence of the chunks written to it: a text line         *)
(* [text |-> str] or a dumped document [yaml |-> template].  A log line is *)
(* one print call, to stdout or stderr.                                    *)
(***************************************************************************)
\* --output-dir (its default)
OutputDir == s_templates_generated

\* What the environment can do to one save_template call: nothing, or an
\* OSError raised by open or by the last write to the open file.
IOFaults == {"none", "open", "write"}

\* Whether f.write(text) can encode text (UTF-8).
Encodable(text) == \A k \in 1..Len(text) : text[k] # Surrogate

\* Whether the k-th write of `chunks` raises: a text that cannot be encoded,
\* or the fault of the environment, which hits the last write.
WriteFails(chunks, fault, k) ==
  \/ "text" \in DOMAIN chunks[k] /\ ~Encodable(chunks[k].text)
  \/ k = Len(chunks) /\ fault = "write"

\* The chunks on disk once the first failing write has raised, under
\* `with open(file_path, "w")`: the earlier writes are flushed by the close.
Written(chunks, fault) ==
  IF \E k \in 1..Len(chunks) : WriteFails(chunks, fault, k)
  THEN SubSeq(chunks, 1,
              (CHOOSE k \in 1..Len(chunks) :
                 /\ WriteFails(chunks, fault, k)
                 /\ \A j \in 1..(k - 1) : ~WriteFails(chunks, fault, j)) - 1)
  ELSE chunks

\* The exception of the first failing write.
WriteError(chunks, fault) ==
  IF \E k \in 1..Len(chunks) :
       "text" \in DOMAIN chunks[k] /\ ~Encodable(chunks[k].text)
  THEN <<"UnicodeEncodeError", "write">>
  ELSE <<"OSError", "write">>

\* The body of save_template, given the chunks it writes: the exception or
\* the path returned, the directory it makes sure of (mkdir -p), and the file
\* it leaves behind, if it came to open one.
SaveChunks(template, chunks, fault) ==
  LET category_dir == <<OutputDir, CategorySlug(template.spec.category)>>
      file_path == Append(category_dir, template.metadata.name \o s_yaml)
      done == Written(chunks, fault)
  IN  IF fault = "open"
      THEN [ok |-> FALSE, exc |-> <<"OSError", "open">>,
            dirs |-> {category_dir}, files |-> <<>>]
      ELSE IF done # chunks
      THEN [ok |-> FALSE, exc |-> WriteError(chunks, fault),
            dirs |-> {category_dir}, files |-> (file_path :> done)]
      ELSE [ok |-> TRUE, value |-> file_path,
            dirs |-> {category_dir}, files |-> (file_path :> chunks)]

\* save_template of generate-templates.py: the YAML body alone.
RemoteChunks(template) == <<[yaml |-> template]>>

RemoteSave(template, fault) == SaveChunks(template, RemoteChunks(template), fault)

\* save_template of generate-from-catalog.py: three comment lines, the
\* document separator, the YAML body.
CuratedChunks(template) ==
  <<[text |-> s_hash \o template.spec.displayName \o s_spaced_dash
                \o template.spec.description \o s_newline],
    [text |-> s_hash_category \o template.spec.category \o s_newline],
    [text |-> s_hash_base_image \o template.spec.baseImage \o s_newline],
    [text |-> s_separator],
    [yaml |-> template]>>

CuratedSave(template, fault) == SaveChunks(template, CuratedChunks(template), fault)

(***************************************************************************)
(* The catalogs of the model.                                              *)
(***************************************************************************)
Res(memory, cpu) == [memory |-> memory, cpu |-> cpu]

\* Entries of a curated catalog file (scripts/popular-apps.json).
CuratedEntries ==
  { [name |-> s_firefox, displayName |-> s_Firefox,
     description |-> s_Web_browser, category |-> s_Web_Browsers,
     resources |-> Res(s_2Gi, s_1000m)],
    [name |-> s_chromium, displayName |-> s_Chromium,
     description |-> s_Web_browser, category |-> s_Web_Browsers],
    [name |-> s_gimp, displayName |-> s_GIMP,
     description |-> s_Image_editor, resources |-> Res(s_4Gi, s_2000m)],
    [name |-> s_code_server, displayName |-> s_VS_Code,
     description |-> s_IDE, category |-> s_Development,
     resources |-> Res(s_4Gi, s_2), kasmvnc |-> FALSE, port |-> 8443,
     env |-> <<[name |-> s_TZ, value |-> s_UTC]>>],
    [name |-> s_filezilla, displayName |-> s_FileZilla,
     description |-> s_FTP_client, category |-> s_File_Management,
     resources |-> Res(s_2Gi, s_1000m), kasmvnc |-> FALSE],
    [name |-> s_audacity, displayName |-> s_Audacity,
     description |-> s_Audio_editor_ \o <<Surrogate>>,
     category |-> s_Audio_and_Video, resources |-> Res(s_3Gi, s_1500m)] }

\* Entries of the remote catalog (the "images" of the API's answer).
RemoteEntries ==
  { [name |-> s_kasm, category |-> s_Remote_Desktop_and_Business],
    [name |-> s_linuxserver_kasm, category |-> s_Remote_Desktop_and_Business],
    [name |-> s_webtop, category |-> s_Web_Browser],
    [name |-> s_linuxserver_webtop, category |-> s_Web_Browser],
    [name |-> s_linuxserver_heimdall, category |-> s_Network_and_DNS,
     description |-> s_dashboard],
    [name |-> s_firefox, category |-> s_Web_Browser,
     description |-> s_Web_browser],
    [name |-> s_code_server, description |-> None] }

\* generate_template on every entry a catalog of the model can hold: the
\* function is pure, so its results are tabulated once.
RemoteTemplates == [image \in RemoteEntries |-> RemoteTemplate(image)]

CuratedTemplates == [app \in CuratedEntries |-> CuratedTemplate(app)]

\* save_template on every template so made, under every fault: likewise.
RemoteSaves ==
  [image \in {i \in RemoteEntries : RemoteTemplates[i].ok}, fault \in IOFaults |->
     RemoteSave(RemoteTemplates[image].value, fault)]

CuratedSaves ==
  [app \in {a \in CuratedEntries : CuratedTemplates[a].ok}, fault \in IOFaults |->
     CuratedSave(CuratedTemplates[app].value, fault)]

\* The lists of at most n elements of S.
RECURSIVE ListsUpTo(_, _)
ListsUpTo(S, n) ==
  IF n = 0 THEN {<<>>}
  ELSE LET shorter == ListsUpTo(S, n - 1)
       IN  shorter \cup {Append(l, e) : l \in shorter, e \in S}

\* How the catalog source answers: with a list of entries, or not at all.
CuratedSources ==
  {[status |-> "ok", images |-> l] : l \in ListsUpTo(CuratedEntries, MaxEntries)}
    \cup {[status |-> s, images |-> <<>>] : s \in {"missing", "malformed"}}

RemoteSources ==
  {[status |-> "ok", images |-> l] : l \in ListsUpTo(RemoteEntries, MaxEntries)}
    \cup {[status |-> s, images |-> <<>>] : s \in {"network", "malformed"}}

\* The command lines.
CuratedArgs == {[list_categories |-> FALSE, category |-> None]}

RemoteArgs ==
  {[list_categories |-> FALSE, category |-> c] : c \in {None, s_Web_Browsers}}
    \cup {[list_categories |-> TRUE, category |-> None]}

(***************************************************************************)
(* The run: main() of either script.                                       *)
(***************************************************************************)
Init ==
  /\ pipeline \in {"curated", "remote"}
  /\ source \in (IF pipeline = "curated" THEN CuratedSources ELSE RemoteSources)
  /\ args \in (IF pipeline = "curated" THEN CuratedArgs ELSE RemoteArgs)
  /\ apps = <<>>
  /\ pc = "start"
  /\ idx = 0
  /\ generated = 0
  /\ skipped = 0
  /\ categories = {}
  /\ dirs = {}
  /\ files = <<>>
  /\ log = <<>>
  /\ exitCode = 0
  /\ uncaught = FALSE

\* sys.exit(code)
Exit(code) == pc' = "done" /\ exitCode' = code /\ uncaught' = FALSE

\* An exception no handler catches: the traceback, exit status 1.
Crash == pc' = "done" /\ exitCode' = 1 /\ uncaught' = TRUE

\* load_catalog and its handlers in main
CuratedLoad ==
  /\ pipeline = "curated" /\ pc = "start"
  /\ IF source.status = "ok"
     THEN /\ apps' = source.images
          /\ log' = Append(log, [kind |-> "loaded", n |-> Len(source.images)])
          /\ pc' = "loaded"
          /\ UNCHANGED <<exitCode, uncaught>>
     ELSE /\ log' = Append(log, [kind |-> "load-error", why |-> source.status])
          /\ Exit(1)
          /\ UNCHANGED apps
  /\ UNCHANGED <<pipeline, args, source, idx, generated, skipped, categories,
                 dirs, files>>

\* A slip: the output directory made before the catalog is fetched.
RemoteFetch_MkdirFirst ==
  /\ pipeline = "remote" /\ pc = "start"
  /\ dirs' = dirs \cup {<<OutputDir>>}
  /\ IF source.status = "ok"
     THEN /\ apps' = source.images
          /\ log' = Append(log, [kind |-> "loaded", n |-> Len(source.images)])
          /\ pc' = "loaded"
          /\ UNCHANGED <<exitCode, uncaught>>
     ELSE /\ log' = Append(log, [kind |-> "load-error", why |-> source.status])
          /\ Exit(1)
          /\ UNCHANGED apps
  /\ UNCHANGED <<pipeline, args, source, idx, generated, skipped, categories,
                 files>>

\* fetch_images, and main up to "Fetched n images"
RemoteFetch ==
  /\ pipeline = "remote" /\ pc = "start"
  /\ IF source.status = "ok"
     THEN /\ apps' = source.images
          /\ log' = Append(log, [kind |-> "loaded", n |-> Len(source.images)])
          /\ pc' = "loaded"
          /\ UNCHANGED <<exitCode, uncaught>>
     ELSE /\ log' = Append(log, [kind |-> "load-error", why |-> source.status])
          /\ Exit(1)
          /\ UNCHANGED apps
  /\ UNCHANGED <<pipeline, args, source, idx, generated, skipped, categories,
                 dirs, files>>

\* main with --list-categories
RemoteListCategories ==
  /\ pipeline = "remote" /\ pc = "loaded" /\ args.list_categories
  /\ LET cats == {normalize_category(DictGet(apps[k], "category", s_empty)) :
                    k \in 1..Len(apps)}
         listed == Sorted(cats)
     IN  log' = log \o [k \in 1..Len(listed) |-> [kind |-> "category", cat |-> listed[k]]]
  /\ Exit(0)
  /\ UNCHANGED <<pipeline, args, source, apps, idx, generated, skipped,
                 categories, dirs, files>>

\* main of generate-from-catalog.py, after the load and before the loop:
\* the output directory, generated = 0, categories = set()
CuratedPrepare ==
  /\ pipeline = "curated" /\ pc = "loaded"
  /\ dirs' = dirs \cup {<<OutputDir>>}
  /\ generated' = 0
  /\ categories' = {}
  /\ idx' = 1
  /\ pc' = "loop"
  /\ UNCHANGED <<pipeline, args, source, apps, skipped, files, log, exitCode,
                 uncaught>>

\* main of generate-templates.py, after the fetch and before the loop: the
\* --category filter, the output directory, generated = 0, skipped = 0
RemotePrepare ==
  /\ pipeline = "remote" /\ pc = "loaded" /\ ~args.list_categories
  /\ IF args.category # None
     THEN LET kept == SelectSeq(apps, LAMBDA img :
                        normalize_category(DictGet(img, "category", s_empty)) = args.category)
          IN  /\ apps' = kept
              /\ log' = Append(log, [kind |-> "filtered", n |-> Len(kept)])
     ELSE UNCHANGED <<apps, log>>
  /\ dirs' = dirs \cup {<<OutputDir>>}
  /\ generated' = 0
  /\ skipped' = 0
  /\ idx' = 1
  /\ pc' = "loop"
  /\ UNCHANGED <<pipeline, args, source, categories, files, exitCode, uncaught>>

\* A slip: the except clause reports the entry and raises again.
RemoteHandler_Reraise(name, exc, ds, fs) ==
  /\ log' = Append(log, [kind |-> "error", name |-> name, exc |-> exc])
  /\ Crash
  /\ dirs' = ds
  /\ files' = fs
  /\ UNCHANGED <<generated, skipped, idx>>

\* The except clause of the remote loop: report the entry, count it, go on.
RemoteHandler(name, exc, ds, fs) ==
  /\ log' = Append(log, [kind |-> "error", name |-> name, exc |-> exc])
  /\ skipped' = skipped + 1
  /\ idx' = idx + 1
  /\ dirs' = ds
  /\ files' = fs
  /\ UNCHANGED <<generated, pc, exitCode, uncaught>>

\* One iteration of the remote loop.
RemoteEntry ==
  /\ pipeline = "remote" /\ pc = "loop" /\ idx <= Len(apps)
  /\ LET image == apps[idx]
         name == Lower(DictGet(image, "name", s_empty))
     IN  IF should_skip(name)
         THEN /\ log' = Append(log, [kind |-> "skip", name |-> name])
              /\ skipped' = skipped + 1
              /\ idx' = idx + 1
              /\ UNCHANGED <<generated, dirs, files, pc, exitCode, uncaught>>
         ELSE LET made == RemoteTemplates[image]
              IN  IF ~made.ok
                  THEN RemoteHandler(name, made.exc, dirs, files)
                  ELSE \E fault \in IOFaults :
                         LET saved == RemoteSaves[image, fault]
                         IN  IF ~saved.ok
                             THEN RemoteHandler(name, saved.exc, dirs \cup saved.dirs,
                                                saved.files @@ files)
                             ELSE /\ log' = Append(log, [kind |-> "generated",
                                                         path |-> saved.value])
                                  /\ generated' = generated + 1
                                  /\ idx' = idx + 1
                                  /\ dirs' = dirs \cup saved.dirs
                                  /\ files' = saved.files @@ files
                                  /\ UNCHANGED <<skipped, pc, exitCode, uncaught>>
  /\ UNCHANGED <<pipeline, args, source, apps, categories>>

\* The summary of generate-templates.py
RemoteSummary ==
  /\ pipeline = "remote" /\ pc = "loop" /\ idx > Len(apps)
  /\ log' = Append(log, [kind |-> "summary",
                         totals |-> [Generated |-> generated, Skipped |-> skipped]])
  /\ Exit(0)
  /\ UNCHANGED <<pipeline, args, source, apps, idx, generated, skipped,
                 categories, dirs, files>>

\* The except clause of the curated loop: report the entry, go on.
CuratedHandler(app, exc, ds, fs) ==
  /\ log' = Append(log, [kind |-> "error",
                         name |-> DictGet(app, "name", s_unknown),
                         exc |-> exc])
  /\ idx' = idx + 1
  /\ dirs' = ds
  /\ files' = fs
  /\ UNCHANGED <<generated, categories, pc, exitCode, uncaught>>

\* One iteration of the curated loop.
CuratedEntry ==
  /\ pipeline = "curated" /\ pc = "loop" /\ idx <= Len(apps)
  /\ LET app == apps[idx]
         made == CuratedTemplates[app]
     IN  IF ~made.ok
         THEN CuratedHandler(app, made.exc, dirs, files)
         ELSE \E fault \in IOFaults :
                LET saved == CuratedSaves[app, fault]
                IN  IF ~saved.ok
                    THEN CuratedHandler(app, saved.exc, dirs \cup saved.dirs,
                                        saved.files @@ files)
                    ELSE /\ categories' = categories \cup {made.value.spec.category}
                         /\ log' = Append(log, [kind |-> "generated",
                                                path |-> saved.value])
                         /\ generated' = generated + 1
                         /\ idx' = idx + 1
                         /\ dirs' = dirs \cup saved.dirs
                         /\ files' = saved.files @@ files
                         /\ UNCHANGED <<pc, exitCode, uncaught>>
  /\ UNCHANGED <<pipeline, args, source, apps, skipped>>

\* sum(1 for t in apps if t["category"] == cat)
CountCategory(cat) == Cardinality({k \in 1..Len(apps) : apps[k]["category"] = cat})

\* The summary of generate-from-catalog.py and its per-category breakdown,
\* which reads t["category"] of every entry of the catalog.
CuratedSummary ==
  /\ pipeline = "curated" /\ pc = "loop" /\ idx > Len(apps)
  /\ LET summary == [kind |-> "summary",
                     totals |-> [Generated |-> generated,
                                 Categories |-> Cardinality(categories)]]
         cats == Sorted(categories)
     IN  IF cats # <<>> /\ \E k \in 1..Len(apps) : "category" \notin DOMAIN apps[k]
         THEN /\ log' = Append(log, summary)
              /\ Crash
         ELSE /\ log' = Append(log, summary)
                          \o [k \in 1..Len(cats) |->
                                [kind |-> "breakdown", cat |-> cats[k],
                                 count |-> CountCategory(cats[k])]]
              /\ Exit(0)
  /\ UNCHANGED <<pipeline, args, source, apps, idx, generated, skipped,
                 categories, dirs, files>>

Next ==
  \/ CuratedLoad
  \/ CuratedPrepare
  \/ CuratedEntry
  \/ CuratedSummary
  \/ RemoteFetch
  \/ RemoteListCategories
  \/ RemotePrepare
  \/ RemoteEntry
  \/ RemoteSummary

Spec == Init /\ [][Next]_vars

\* The interpreter runs the next statement of main until the process exits.
FairSpec == Spec /\ WF_vars(Next)

(***************************************************************************)
(* What the claims speak of.                                               *)
(***************************************************************************)
\* The lines the loop has printed, one per entry processed, in order.
EntryLines == SelectSeq(log, LAMBDA l : l.kind \in {"generated", "skip", "error"})

SummaryLines == SelectSeq(log, LAMBDA l : l.kind = "summary")

CategoryLines == SelectSeq(log, LAMBDA l : l.kind = "category")

\* The templates on disk: the dumped document of every file that has one.
Templates ==
  UNION {{files[p][k].yaml : k \in {j \in 1..Len(files[p]) : "yaml" \in DOMAIN files[p][j]}} :
           p \in DOMAIN files}

\* The name an entry is given in its source.
SourceName(entry) == DictGet(entry, "name", s_empty)

\* The identifier of a remote entry: lower case, "/" as "-", no "linuxserver-".
Identifier(image) ==
  Replace(Replace([k \in 1..Len(SourceName(image)) |-> ToLower(SourceName(image)[k])],
                  s_slash, s_dash),
          s_linuxserver_dash, s_empty)

\* A name the remote pipeline's normalisation leaves as it is.
IsNormalForm(name) ==
  /\ \A k \in 1..Len(name) : ~IsUpper(name[k])
  /\ ~Contains(name, s_slash)
  /\ ~Contains(name, s_linuxserver_dash)

\* The file name of the k-th entry's template, of a "generated" line.
FileName(k) == EntryLines[k].path[3]

Generated(k) == k \in 1..Len(EntryLines) /\ EntryLines[k].kind = "generated"

Failed(k) == k \in 1..Len(EntryLines) /\ EntryLines[k].kind = "error"

(***************************************************************************)
(* C1: in the loop of either pipeline an exception of generate_template or *)
(* save_template is caught: the step that fails moves on to the next entry *)
(* without an uncaught exception, every entry gets its line in catalog     *)
(* order, and a run that has entered the loop reaches the summary.         *)
(***************************************************************************)
C1_RunContinues ==
  /\ [][pc = "loop" /\ idx <= Len(apps)
          => pc' = "loop" /\ idx' = idx + 1 /\ ~uncaught']_vars
  /\ [](pc = "loop" => Len(EntryLines) = idx - 1)
  /\ (pc = "loop") ~> (SummaryLines # <<>> /\ Len(EntryLines) = Len(apps))

\* A failed entry followed by a generated one, and the summary printed.
C1_Witness ==
  /\ SummaryLines # <<>>
  /\ \E k \in 1..Len(EntryLines) : Failed(k) /\ Generated(k + 1)

(***************************************************************************)
(* C2: the exit code is 1 exactly when the catalog could not be loaded,    *)
(* and no run ends with an uncaught exception.                             *)
(***************************************************************************)
C2_ExitCode ==
  pc = "done" => /\ (exitCode = 1 <=> source.status # "ok")
                 /\ exitCode \in {0, 1}
                 /\ ~uncaught

(***************************************************************************)
(* C3: a directory or file exists only once the catalog has been loaded    *)
(* and the run is generating; a failed load exits with 1 and              *)
(* --list-categories prints the canonical categories sorted and without    *)
(* duplicates and exits with 0, both with nothing created.                 *)
(***************************************************************************)
C3_DirAfterLoad ==
  /\ (dirs # {} \/ DOMAIN files # {})
       => source.status = "ok" /\ ~args.list_categories /\ pc \in {"loop", "done"}
  /\ (pc = "done" /\ source.status # "ok") => exitCode = 1 /\ dirs = {}
  /\ (pc = "done" /\ source.status = "ok" /\ args.list_categories)
       => /\ exitCode = 0 /\ dirs = {}
          /\ \A k \in 1..(Len(CategoryLines) - 1) :
               StrLess(CategoryLines[k].cat, CategoryLines[k + 1].cat)
          /\ {CategoryLines[k].cat : k \in 1..Len(CategoryLines)}
               = {normalize_category(DictGet(source.images[k], "category", s_empty)) :
                    k \in 1..Len(source.images)}

\* --list-categories has printed two categories of a two-entry catalog.
C3_Witness ==
  /\ pc = "done" /\ args.list_categories
  /\ Len(source.images) >= 2
  /\ Len(CategoryLines) >= 2
  /\ dirs = {}

(***************************************************************************)
(* C4: an entry that fails leaves every file as it was: no file is created *)
(* or changed by the step that reports the error.                          *)
(***************************************************************************)
C4_NoPartialFile ==
  [][(pc = "loop" /\ Len(log') = Len(log) + 1 /\ log'[Len(log')].kind = "error")
       => files' = files]_vars

(***************************************************************************)
(* C5: the remote pipeline never writes a template whose metadata.name is  *)
(* skip-listed, and counts every entry with a skip-listed identifier as    *)
(* skipped.                                                                *)
(***************************************************************************)
C5_SkipListed ==
  pipeline = "remote" =>
    /\ \A tpl \in Templates : ~should_skip(tpl.metadata.name)
    /\ \A k \in 1..Len(EntryLines) :
         should_skip(Identifier(apps[k])) => EntryLines[k].kind = "skip"

(***************************************************************************)
(* C6: a remote template whose identifier has a resources override in      *)
(* SPECIAL_CONFIGS has that override as defaultResources; any other has    *)
(* the default of its category, or the global default.                     *)
(***************************************************************************)
C6_SpecialResources ==
  pipeline = "remote" =>
    \A tpl \in Templates :
      LET id == tpl.metadata.name
      IN  tpl.spec.defaultResources =
            IF id \in DOMAIN SPECIAL_CONFIGS /\ "resources" \in DOMAIN SPECIAL_CONFIGS[id]
            THEN SPECIAL_CONFIGS[id]["resources"]
            ELSE DictGet(RESOURCE_DEFAULTS, tpl.spec.category, Res(s_2Gi, s_1000m))

(***************************************************************************)
(* C7: a curated entry with name, displayName, description and category    *)
(* is synthesized whatever optional fields it lacks: generate_template     *)
(* raises nothing for it.                                                  *)
(***************************************************************************)
C7_TotalOnOptional ==
  pipeline = "curated" =>
    \A k \in 1..Len(EntryLines) :
      {"name", "displayName", "description", "category"} \subseteq DOMAIN apps[k]
        => ~(Failed(k) /\ EntryLines[k].exc[1] \in {"KeyError", "ValueError"})

(***************************************************************************)
(* C8: two entries of one run with distinct source names get distinct      *)
(* metadata.name values (file names).                                      *)
(***************************************************************************)
C8_DistinctNames ==
  \A k, l \in 1..Len(EntryLines) :
    (Generated(k) /\ Generated(l) /\ SourceName(apps[k]) # SourceName(apps[l]))
      => FileName(k) # FileName(l)

(***************************************************************************)
(* C8, amended: in the curated pipeline, and in the remote pipeline for    *)
(* source names that are lower case and hold neither "/" nor               *)
(* "linuxserver-", metadata.name is the source name, so that distinct      *)
(* source names get distinct metadata.name values.                         *)
(***************************************************************************)
C8_VerbatimNames ==
  LET verbatim(k) == pipeline = "curated" \/ IsNormalForm(SourceName(apps[k]))
  IN  /\ \A k \in 1..Len(EntryLines) :
           (Generated(k) /\ verbatim(k)) => FileName(k) = SourceName(apps[k]) \o s_yaml
      /\ \A k, l \in 1..Len(EntryLines) :
           (/\ Generated(k) /\ Generated(l) /\ verbatim(k) /\ verbatim(l)
            /\ SourceName(apps[k]) # SourceName(apps[l]))
             => FileName(k) # FileName(l)

\* A remote run has generated two entries with distinct names in normal form.
C8_Witness ==
  /\ pipeline = "remote"
  /\ Generated(1) /\ Generated(2)
  /\ IsNormalForm(SourceName(apps[1])) /\ IsNormalForm(SourceName(apps[2]))
  /\ SourceName(apps[1]) # SourceName(apps[2])

(***************************************************************************)
(* C9: in the loop generated + skipped is the number of entries processed, *)
(* and the totals of the summary add up to the number of entries iterated. *)
(***************************************************************************)
C9_Counts ==
  /\ pc = "loop" => generated + skipped = idx - 1
  /\ SummaryLines # <<>> =>
       LET totals == SummaryLines[1].totals
       IN  /\ totals.Generated
                + (IF "Skipped" \in DOMAIN totals THEN totals.Skipped ELSE 0)
                = Len(apps)
           /\ totals.Generated = Cardinality({k \in 1..Len(EntryLines) : Generated(k)})

(***************************************************************************)
(* C10: every template has one port entry; with KasmVNC enabled it is      *)
(* named vnc and kasmvnc.port is its containerPort, with KasmVNC disabled  *)
(* it is named http and kasmvnc.port is None.                              *)
(***************************************************************************)
C10_KasmvncPort ==
  \A tpl \in Templates :
    /\ Len(tpl.spec.ports) = 1
    /\ IF tpl.spec.kasmvnc.enabled
       THEN /\ tpl.spec.kasmvnc.port = Port(tpl.spec.ports[1].containerPort)
            /\ tpl.spec.ports[1].name = s_vnc
       ELSE /\ tpl.spec.kasmvnc.port = NoPort
            /\ tpl.spec.ports[1].name = s_http

====
